---- MODULE Spec2Model ----
(***************************************************************************)
(* Trivia game (trivia_nocomments.ipynb): the turn/round state machine of  *)
(* TriviaGameGUI, the question fetch get_questions, the scoring step and   *)
(* the final leaderboard ordering insertion_sort.                          *)
(*                                                                         *)
(* Indices are 0-based as in the Python source; a Python list is a TLA+    *)
(* sequence, so players[i] of the source is players[i + 1] here.           *)
(***************************************************************************)
EXTENDS Integers, Sequences, FiniteSets, TLC

VARIABLES
    players,              \* game.players: the list of Player objects
    round,                \* game.round
    round_player_index,   \* TriviaGameGUI.round_player_index
    current_player_index, \* TriviaGameGUI.current_player_index (set once, never used)
    current_question,     \* TriviaGameGUI.current_question (None before the first fetch)
    option_vars,          \* value held by the IntVar behind the radio buttons
    request,              \* difficulty of the request in flight, "none" when idle
    message,              \* last dialog shown (messagebox) or error printed
    sorted_players,       \* end_game: the list returned by insertion_sort
    final_leaderboard,    \* end_game: the lines shown in the final dialog
    pc,                   \* where control is: fetching (a request is in flight),
                          \* waiting (event loop idle), ended, crashed; rank and
                          \* ranked for insertion_sort applied on its own; fetch,
                          \* fetched and raised for get_questions on its own
    players0,             \* history: the player list as first handed over
    nAdvance,             \* history: number of next_player calls so far
    response,             \* get_questions applied on its own: what the request met
    returned,             \* get_questions applied on its own: the value returned
    asked,                \* history: the request that current_question answered
    frames                \* frames of this program on the call stack

vars == <<players, round, round_player_index, current_player_index,
          current_question, option_vars, request, message, sorted_players,
          final_leaderboard, pc, players0, nAdvance, response, returned,
          asked, frames>>

\* input and output of get_questions applied on its own
fetch_io == <<response, returned>>

----------------------------------------------------------------------------
(* Bounds of the model *)

MaxPlayers == 3      \* registry sizes 1..MaxPlayers
MaxTurns == 7        \* next_player is called at most MaxTurns times
MaxPoints == 2       \* at most MaxPoints points are awarded in a game
MaxIncorrect == 1    \* provider records carry 1..MaxIncorrect incorrect answers
MaxRankLen == 3      \* insertion_sort is applied to lists of length 0..MaxRankLen
MaxRankScore == 5    \* with scores 0..MaxRankScore

----------------------------------------------------------------------------
(* Python helpers *)

None == [none |-> TRUE]

\* no request has returned a question yet
NotAsked == [index |-> -1, difficulty |-> "none", at |-> -1]

\* frames of this program on the stack at start-up: __init__, ask_question
InitFrames == 2

\* frames on the stack when next_player runs inside submit_answer, itself
\* called from the event loop: submit_answer, next_player, ask_question
CallbackFrames == 3

\* seq[i] of Python for a 0-based i: negative i counts from the end,
\* anything outside -len..len-1 raises IndexError
PyInRange(seq, i) == -Len(seq) <= i /\ i < Len(seq)

PyGet(seq, i) == IF i >= 0 THEN seq[i + 1] ELSE seq[Len(seq) + i + 1]

----------------------------------------------------------------------------
(* Players and the registry *)

Player(name, difficulty) ==
    [name |-> name, DEFAULT_DIFFICULTY |-> difficulty, score |-> 0]

ChildPlayer(name) == Player(name, "easy")

AdultPlayer(name) == Player(name, "medium")

add_player(ps, name, player_type) ==
    IF player_type = "child" THEN Append(ps, ChildPlayer(name))
    ELSE IF player_type = "adult" THEN Append(ps, AdultPlayer(name))
    ELSE ps

\* the setup loop of __main__: one add_player per entered (name, type);
\* the name of the i-th player is i
RECURSIVE Setup(_, _)
Setup(types, i) ==
    IF i = 0 THEN <<>> ELSE add_player(Setup(types, i - 1), i, types[i])

\* variant: the points are taken off
add_scoreSubtract(player, points) == [player EXCEPT !.score = @ - points]

add_score(player, points) == [player EXCEPT !.score = @ + points]

RECURSIVE TotalScore(_)
TotalScore(ps) ==
    IF ps = <<>> THEN 0 ELSE Head(ps).score + TotalScore(Tail(ps))

----------------------------------------------------------------------------
(* insertion_sort *)

\* variants of the while condition: non-strict, and the reverse order
ShiftCondNonStrict(pj, key) == pj.score <= key.score

ShiftCondAscending(pj, key) == pj.score > key.score

\* the while condition, for the element at j and the key
ShiftCond(pj, key) == pj.score < key.score

\* while j >= 0 and players[j].score < key.score: shift right, j -= 1
RECURSIVE InnerLoop(_, _, _)
InnerLoop(ps, j, key) ==
    IF j >= 0 /\ ShiftCond(ps[j + 1], key)
    THEN InnerLoop([ps EXCEPT ![j + 2] = ps[j + 1]], j - 1, key)
    ELSE [players |-> ps, j |-> j]

\* variant: the key is not written back after the shifts
PlaceForgotten(ps, j, key) == ps

\* players[j + 1] = key
Place(ps, j, key) == [ps EXCEPT ![j + 2] = key]

\* for i in range(1, len(players))
RECURSIVE OuterLoop(_, _)
OuterLoop(ps, i) ==
    IF i < Len(ps)
    THEN LET key == ps[i + 1]
             r == InnerLoop(ps, i - 1, key)
         IN OuterLoop(Place(r.players, r.j, key), i + 1)
    ELSE ps

insertion_sort(ps) == OuterLoop(ps, 1)

----------------------------------------------------------------------------
(* The provider, Question.from_api_response and get_questions *)

AnswerPool == <<"b", "c", "d", "e">>

\* one result record per number of incorrect answers
ProviderRecords ==
    {[category |-> "cat", question |-> "q", correct_answer |-> "a",
      incorrect_answers |-> SubSeq(AnswerPool, 1, n)] : n \in 1..MaxIncorrect}

\* what one request can come back with: an exception of requests, or a body
Responses ==
    {[exception |-> e, response_code |-> 0, results |-> <<>>] :
        e \in {"ConnectionError", "HTTPError"}}
    \cup {[exception |-> "none", response_code |-> 1, results |-> <<>>]}
    \cup {[exception |-> "none", response_code |-> 0, results |-> <<r>>] :
            r \in ProviderRecords}

\* every order random.shuffle can leave the list in
Shuffles(seq) ==
    {[i \in 1..Len(seq) |-> seq[p[i]]] : p \in Permutations(1..Len(seq))}

Question(category, question_text, options, correct_answer) ==
    [category |-> category, question_text |-> question_text,
     options |-> options, correct_answer |-> correct_answer]

\* shuffled is the outcome of random.shuffle on the combined list
from_api_response(api_response, shuffled) ==
    LET question_data == api_response.results[1]
    IN Question(question_data.category, question_data.question, shuffled,
                question_data.correct_answer)

\* variant: the correct answer is not added to the options
CombinedWithoutCorrect(api_response) ==
    api_response.results[1].incorrect_answers

Combined(api_response) ==
    api_response.results[1].incorrect_answers
        \o <<api_response.results[1].correct_answer>>

\* the exception classes of requests that rq.get and raise_for_status raise
RequestExceptions == {"ConnectionError", "Timeout", "HTTPError"}

\* the exception the try block ends with, "none" when it reaches the return
Raises(resp) ==
    IF resp.exception # "none" THEN resp.exception
    ELSE IF resp.response_code # 0 THEN "ValueError"
    ELSE "none"

\* variant: only the exceptions of requests are handled
CaughtRequestOnly(exc) == exc \in RequestExceptions

\* the two except clauses
Caught(exc) == exc \in RequestExceptions \/ exc = "ValueError"

\* variant: one wording for both handlers
PrintedSame(resp) ==
    IF Raises(resp) = "none" THEN "none" ELSE "Error fetching questions"

\* the line printed by the handler that takes the exception
Printed(resp) ==
    IF Raises(resp) \in RequestExceptions THEN "Error fetching questions"
    ELSE IF Raises(resp) = "ValueError" THEN "Data error"
    ELSE "none"

get_questions(resp, shuffled) ==
    IF resp.exception # "none" THEN None
    ELSE IF resp.response_code # 0 THEN None
    ELSE from_api_response(resp, shuffled)

\* the shuffles a response admits (none is drawn when no question is built)
ShufflesOf(resp) ==
    IF resp.exception = "none" /\ resp.response_code = 0
    THEN Shuffles(Combined(resp)) ELSE {<<>>}

----------------------------------------------------------------------------
(* next_player: the index and round assignments *)

\* variants of the index assignment: no wrap, and no move
NextIndexNoWrap(i, n) == i + 1

NextIndexStay(i, n) == i % n

NextIndex(i, n) == (i + 1) % n

\* variant: the round is bumped one player late
NextRoundOffByOne(r, i) == IF i = 1 THEN r + 1 ELSE r

\* variant: the round is bumped on every call
NextRoundAlways(r, i) == r + 1

NextRound(r, i) == IF i = 0 THEN r + 1 ELSE r

----------------------------------------------------------------------------
(* Initial state: __main__ has built the registry, TriviaGameGUI.__init__  *)
(* has called ask_question and the first request is in flight.             *)

Registries ==
    UNION {[1..n -> {"child", "adult"}] : n \in 1..MaxPlayers}

Init ==
    /\ \E types \in Registries : players = Setup(types, Len(types))
    /\ players0 = players
    /\ round = 1
    /\ round_player_index = 0
    /\ current_player_index = 0
    /\ current_question = None
    /\ option_vars = 0
    /\ request = PyGet(players, 0).DEFAULT_DIFFICULTY
    /\ message = "none"
    /\ sorted_players = <<>>
    /\ final_leaderboard = <<>>
    /\ pc = "fetching"
    /\ nAdvance = 0
    /\ response = None
    /\ returned = None
    /\ asked = NotAsked
    /\ frames = InitFrames

----------------------------------------------------------------------------
(* Actions *)

\* variant: the request goes out and control returns to the event loop
\* without waiting for it
AskQuestionAsync(ps, i) ==
    IF PyInRange(ps, i)
    THEN /\ request' = PyGet(ps, i).DEFAULT_DIFFICULTY
         /\ pc' = "waiting"
    ELSE /\ request' = "none"
         /\ pc' = "crashed"

\* variant: the player is looked up at the index as it was before the move
AskQuestionStale(ps, i) ==
    IF PyInRange(ps, i)
    THEN /\ request' = PyGet(ps, round_player_index).DEFAULT_DIFFICULTY
         /\ pc' = "fetching"
    ELSE /\ request' = "none"
         /\ pc' = "crashed"

\* the first two lines of ask_question for the player at index i: the
\* lookup players[i] (IndexError when i is no index of the list) and the
\* request that goes out at that player's difficulty
AskQuestion(ps, i) ==
    IF PyInRange(ps, i)
    THEN /\ request' = PyGet(ps, i).DEFAULT_DIFFICULTY
         /\ pc' = "fetching"
    ELSE /\ request' = "none"
         /\ pc' = "crashed"

\* next_player: the index moves, the round is bumped on wrap, and
\* ask_question is called for the new player
NextPlayer(ps) ==
    LET i == NextIndex(round_player_index, Len(ps))
    IN /\ round_player_index' = i
       /\ round' = NextRound(round, i)
       /\ nAdvance' = nAdvance + 1
       /\ AskQuestion(ps, i)

\* ask_question, the request returned a question: it is stored and shown,
\* a fresh IntVar (value 0) backs the new radio buttons; control returns
\* to the event loop
FetchOk ==
    /\ pc = "fetching"
    /\ \E resp \in Responses : \E shuffled \in ShufflesOf(resp) :
         LET question == get_questions(resp, shuffled)
         IN /\ question # None
            /\ current_question' = question
    /\ option_vars' = 0
    /\ asked' = [index |-> round_player_index, difficulty |-> request,
                 at |-> nAdvance]
    /\ request' = "none"
    /\ pc' = "waiting"
    /\ frames' = 0
    /\ UNCHANGED fetch_io
    /\ UNCHANGED <<players, round, round_player_index, current_player_index,
                   message, sorted_players, final_leaderboard, players0,
                   nAdvance>>

\* ask_question, get_questions returned None: the error dialog, then
\* next_player, which asks for the next player
FetchFailStep ==
    /\ pc = "fetching"
    /\ \E resp \in Responses : \E shuffled \in ShufflesOf(resp) :
         get_questions(resp, shuffled) = None
    /\ message' = "fetch_error"
    /\ NextPlayer(players)
    /\ frames' = frames + 2
    /\ UNCHANGED <<fetch_io, asked>>
    /\ UNCHANGED <<players, current_player_index, current_question,
                   option_vars, sorted_players, final_leaderboard, players0>>

FetchFail ==
    /\ nAdvance < MaxTurns
    /\ FetchFailStep

\* a radio button is clicked: the IntVar takes the button's value
SelectOption ==
    /\ pc = "waiting"
    /\ \E idx \in 1..Len(current_question.options) : option_vars' = idx
    /\ UNCHANGED <<fetch_io, asked, frames>>
    /\ UNCHANGED <<players, round, round_player_index, current_player_index,
                   current_question, request, message, sorted_players,
                   final_leaderboard, pc, players0, nAdvance>>

\* variant: the empty selection is not tested for
NoSelectionIgnored(selected_option) == FALSE

\* variant: the test is for a negative selection
NoSelectionNegative(selected_option) == selected_option < 0

\* the test that makes submit_answer return early
NoSelection(selected_option) == selected_option = 0

\* variant: every answer counts as correct
IsCorrectAlways(question, selected_option) == TRUE

\* the comparison that awards the point
IsCorrect(question, selected_option) ==
    PyGet(question.options, selected_option - 1) = question.correct_answer

\* variant: the point is given after the index has moved on
ScoredNextPlayer(ps, i, question, selected_option) ==
    IF IsCorrect(question, selected_option)
    THEN [ps EXCEPT ![((i + 1) % Len(ps)) + 1] =
              add_score(ps[((i + 1) % Len(ps)) + 1], 1)]
    ELSE ps

\* the player list after the scoring branch
Scored(ps, i, question, selected_option) ==
    IF IsCorrect(question, selected_option)
    THEN [ps EXCEPT ![i + 1] = add_score(ps[i + 1], 1)]
    ELSE ps

\* submit_answer
SubmitAnswer ==
    /\ pc = "waiting"
    /\ LET selected_option == option_vars
       IN IF NoSelection(selected_option)
          THEN /\ message' = "select_option"
               /\ UNCHANGED <<players, round, round_player_index, request, pc,
                              nAdvance, frames>>
          ELSE IF ~PyInRange(current_question.options, selected_option - 1)
          THEN \* IndexError at the comparison: the callback is abandoned
               /\ message' = "IndexError"
               /\ UNCHANGED <<players, round, round_player_index, request, pc,
                              nAdvance, frames>>
          ELSE /\ nAdvance < MaxTurns
               /\ (IsCorrect(current_question, selected_option)
                     => TotalScore(players) < MaxPoints)
               /\ players' = Scored(players, round_player_index,
                                    current_question, selected_option)
               /\ message' = IF IsCorrect(current_question, selected_option)
                             THEN "correct" ELSE "wrong"
               /\ NextPlayer(players')
               /\ frames' = CallbackFrames
    /\ UNCHANGED <<fetch_io, asked>>
    /\ UNCHANGED <<current_player_index, current_question, option_vars,
                   sorted_players, final_leaderboard, players0>>

\* variant: the last line of the dialog is dropped
LeaderboardTruncated(ps) ==
    [i \in 1..(Len(ps) - 1) |-> <<ps[i].name, ps[i].score>>]

\* the lines of the final dialog, one (name, score) per player
Leaderboard(ps) == [i \in 1..Len(ps) |-> <<ps[i].name, ps[i].score>>]

\* end_game: the list is sorted in place, shown, and the window destroyed
EndGame ==
    /\ pc = "waiting"
    /\ sorted_players' = insertion_sort(players)
    /\ players' = sorted_players'
    /\ final_leaderboard' = Leaderboard(sorted_players')
    /\ message' = "final_leaderboard"
    /\ pc' = "ended"
    /\ UNCHANGED <<fetch_io, asked, frames>>
    /\ UNCHANGED <<round, round_player_index, current_player_index,
                   current_question, option_vars, request, players0, nAdvance>>

Next == FetchOk \/ FetchFail \/ SelectOption \/ SubmitAnswer \/ EndGame

Spec == Init /\ [][Next]_vars

----------------------------------------------------------------------------
(* submit_answer driven directly: the IntVar is set to any integer around  *)
(* the option range (option_vars.set(k)) instead of by a radio button.     *)

SetSelection ==
    /\ pc = "waiting"
    /\ \E k \in -(MaxIncorrect + 2)..(MaxIncorrect + 2) : option_vars' = k
    /\ UNCHANGED <<fetch_io, asked, frames>>
    /\ UNCHANGED <<players, round, round_player_index, current_player_index,
                   current_question, request, message, sorted_players,
                   final_leaderboard, pc, players0, nAdvance>>

NextAPI == FetchOk \/ FetchFail \/ SetSelection \/ SubmitAnswer \/ EndGame

SpecAPI == Init /\ [][NextAPI]_vars

----------------------------------------------------------------------------
(* insertion_sort on its own: any list of up to MaxRankLen players with    *)
(* any scores; the name of a player is its position in the input.          *)

RankInputs ==
    UNION {{[i \in 1..n |-> [name |-> i, DEFAULT_DIFFICULTY |-> "easy",
                             score |-> sc[i]]] :
               sc \in [1..n -> 0..MaxRankScore]} : n \in 0..MaxRankLen}

InitRank ==
    /\ players \in RankInputs
    /\ players0 = players
    /\ round = 1
    /\ round_player_index = 0
    /\ current_player_index = 0
    /\ current_question = None
    /\ option_vars = 0
    /\ request = "none"
    /\ message = "none"
    /\ sorted_players = <<>>
    /\ final_leaderboard = <<>>
    /\ pc = "rank"
    /\ nAdvance = 0
    /\ response = None
    /\ returned = None
    /\ asked = NotAsked
    /\ frames = 0

\* sorted_players = insertion_sort(players): the list is sorted in place
\* and returned
RankCall ==
    /\ pc = "rank"
    /\ sorted_players' = insertion_sort(players)
    /\ players' = sorted_players'
    /\ pc' = "ranked"
    /\ UNCHANGED <<fetch_io, asked, frames>>
    /\ UNCHANGED <<round, round_player_index, current_player_index,
                   current_question, option_vars, request, message,
                   final_leaderboard, players0, nAdvance>>

NextRank == RankCall

SpecRank == InitRank /\ [][NextRank]_vars

----------------------------------------------------------------------------
(* get_questions on its own: one call against any outcome of the request.  *)
(* A result record carries up to MaxIncorrect + 1 incorrect answers, which *)
(* may repeat and may equal the correct answer.                            *)

SeqsUpTo(S, n) == UNION {[1..k -> S] : k \in 0..n}

FetchRecords ==
    {[category |-> "cat", question |-> "q", correct_answer |-> c,
      incorrect_answers |-> inc] :
        c \in {"a", "b"},
        inc \in SeqsUpTo({"b", "c", "d", "e"}, MaxIncorrect + 1)}

FetchInputs ==
    {[exception |-> e, response_code |-> 0, results |-> <<>>] :
        e \in RequestExceptions}
    \cup {[exception |-> "none", response_code |-> c, results |-> <<>>] :
            c \in 1..2}
    \cup {[exception |-> "none", response_code |-> 0, results |-> <<r>>] :
            r \in FetchRecords}

InitFetch ==
    /\ response \in FetchInputs
    /\ returned = None
    /\ players = <<>>
    /\ players0 = <<>>
    /\ round = 1
    /\ round_player_index = 0
    /\ current_player_index = 0
    /\ current_question = None
    /\ option_vars = 0
    /\ request = "easy"
    /\ message = "none"
    /\ sorted_players = <<>>
    /\ final_leaderboard = <<>>
    /\ pc = "fetch"
    /\ nAdvance = 0
    /\ asked = NotAsked
    /\ frames = 0

\* question = get_questions(difficulty): the value comes back, or an
\* exception no except clause takes leaves the function
GetQuestionsCall ==
    /\ pc = "fetch"
    /\ IF Raises(response) # "none" /\ ~Caught(Raises(response))
       THEN /\ pc' = "raised"
            /\ UNCHANGED <<returned, message>>
       ELSE /\ \E shuffled \in ShufflesOf(response) :
                 returned' = get_questions(response, shuffled)
            /\ message' = Printed(response)
            /\ pc' = "fetched"
    /\ request' = "none"
    /\ UNCHANGED <<players, players0, round, round_player_index,
                   current_player_index, current_question, option_vars,
                   sorted_players, final_leaderboard, nAdvance, response,
                   asked, frames>>

NextFetch == GetQuestionsCall

SpecFetch == InitFetch /\ [][NextFetch]_vars

----------------------------------------------------------------------------
(* The provider is unreachable from start-up on: every request fails.      *)
(* ask_question calls next_player and next_player calls ask_question, so   *)
(* every skip leaves two more frames on the call stack; no frame returns   *)
(* before a request succeeds.                                              *)

\* sys.getrecursionlimit() of CPython; the source does not change it
RecursionLimit == 1000

\* frames on the stack when the k-th skip in a row since start-up begins
Frames(k) == InitFrames + 2 * k

\* one more failed request. While the stack has room this is the skip of
\* FetchFailStep. When the two frames of the skip do not fit, RecursionError
\* is raised at the call that does not fit, next_player() or the
\* ask_question() inside it, and leaves __init__ through every frame
OutageFetchFail ==
    IF Frames(nAdvance) + 2 <= RecursionLimit
    THEN FetchFailStep
    ELSE /\ pc = "fetching"
         /\ pc' = "crashed"
         /\ message' = "RecursionError"
         /\ request' = "none"
         /\ \E at \in {"next_player", "ask_question"} :
              IF at = "next_player"
              THEN UNCHANGED <<round_player_index, round, nAdvance>>
              ELSE /\ round_player_index'
                        = NextIndex(round_player_index, Len(players))
                   /\ round' = NextRound(round, round_player_index')
                   /\ nAdvance' = nAdvance + 1
         /\ frames' = 0
         /\ UNCHANGED <<fetch_io, asked>>
         /\ UNCHANGED <<players, current_player_index, current_question,
                        option_vars, sorted_players, final_leaderboard,
                        players0>>

NextOutage == OutageFetchFail

SpecOutage == Init /\ [][NextOutage]_vars

----------------------------------------------------------------------------
(* The provider answers the first request and is unreachable from then on. *)
(* The skips now start inside submit_answer, which the event loop calls    *)
(* as a button callback: tkinter reports an exception that leaves a        *)
(* callback and goes on with the event loop.                               *)

\* the first request of the session is answered
FirstFetchOk ==
    /\ asked = NotAsked
    /\ nAdvance = 0
    /\ FetchOk

\* one more failed request after an answer was submitted. While the stack
\* has room this is the skip of FetchFailStep. When the two frames of the
\* skip do not fit, RecursionError is raised at the call that does not fit,
\* next_player() or the ask_question() inside it, and leaves submit_answer
\* through every frame: the event loop is idle again, the question, its
\* radio buttons and their IntVar are the ones of the answer submitted last
CallbackFetchFail ==
    /\ current_question # None
    /\ IF frames + 2 <= RecursionLimit
       THEN FetchFailStep
       ELSE /\ pc = "fetching"
            /\ pc' = "waiting"
            /\ message' = "RecursionError"
            /\ request' = "none"
            /\ \E at \in {"next_player", "ask_question"} :
                 IF at = "next_player"
                 THEN UNCHANGED <<round_player_index, round, nAdvance>>
                 ELSE /\ round_player_index'
                           = NextIndex(round_player_index, Len(players))
                      /\ round' = NextRound(round, round_player_index')
                      /\ nAdvance' = nAdvance + 1
            /\ frames' = 0
            /\ UNCHANGED <<fetch_io, asked>>
            /\ UNCHANGED <<players, current_player_index, current_question,
                           option_vars, sorted_players, final_leaderboard,
                           players0>>

NextLateOutage ==
    FirstFetchOk \/ SelectOption \/ SubmitAnswer \/ CallbackFetchFail

SpecLateOutage == Init /\ [][NextLateOutage]_vars

----------------------------------------------------------------------------
(* The first turn with a provider that fails any number of times but not   *)
(* forever: while a request is in flight it can be answered, and weak      *)
(* fairness on FetchOk says that it is not refused for ever. A request is  *)
(* in flight for as long as ask_question runs, so FetchOk stays enabled    *)
(* from one failed request to the next.                                    *)

NextFirstTurn == FetchOk \/ OutageFetchFail

SpecFirstTurn == Init /\ [][NextFirstTurn]_vars /\ WF_vars(FetchOk)

----------------------------------------------------------------------------
(* Properties *)

Scores(ps) == [i \in 1..Len(ps) |-> ps[i].score]

Count(seq, x) == Cardinality({i \in 1..Len(seq) : seq[i] = x})

SameMultiset(a, b) ==
    /\ Len(a) = Len(b)
    /\ \A i \in 1..Len(a) : Count(a, a[i]) = Count(b, a[i])

Descending(ps) ==
    \A i \in 1..(Len(ps) - 1) : ps[i].score >= ps[i + 1].score

\* position of the player named n in the list ps
PosOf(ps, n) == CHOOSE k \in 1..Len(ps) : ps[k].name = n

\* out keeps, among equal scores, the order the players have in inp
StableWrt(inp, out) ==
    \A i, j \in 1..Len(out) :
        (i < j /\ out[i].score = out[j].score)
            => PosOf(inp, out[i].name) < PosOf(inp, out[j].name)

\* C1: after k calls of next_player from the initial state the index is
\* k mod N and the round is 1 + k div N, for every registry size N
C1_IndexAndRound ==
    /\ round_player_index = nAdvance % Len(players)
    /\ round = 1 + (nAdvance \div Len(players))

\* three players, seven advances: index 1, round 3
C1_Witness ==
    /\ Len(players) = 3
    /\ nAdvance = 7
    /\ round_player_index = 1
    /\ round = 3

\* C2: the index of the current player is always an index of the registry
C2_IndexInRange ==
    0 <= round_player_index /\ round_player_index < Len(players)

\* the last player of three is current again after a wrap
C2_Witness ==
    /\ Len(players) = 3
    /\ round_player_index = 2
    /\ round = 2
    /\ pc = "waiting"

\* C3: insertion_sort is stable: players with equal scores come out in the
\* order they went in
C3_Stable == pc = "ranked" => StableWrt(players0, sorted_players)

\* [1(3), 2(5), 3(3)] ranks to [2(5), 1(3), 3(3)]
C3_Witness ==
    /\ pc = "ranked"
    /\ Scores(players0) = <<3, 5, 3>>
    /\ [i \in 1..3 |-> sorted_players[i].name] = <<2, 1, 3>>

\* C4: the output of insertion_sort holds the same players as its input,
\* each as many times
C4_Permutation == pc = "ranked" => SameMultiset(players0, sorted_players)

\* an input whose last element was shifted to the front was ranked
C4_Witness ==
    /\ pc = "ranked"
    /\ Len(players0) = 3
    /\ sorted_players # players0
    /\ sorted_players[1] = players0[3]

\* C5: the output of insertion_sort is in descending order of score
C5_Descending == pc = "ranked" => Descending(sorted_players)

\* an ascending input was ranked
C5_Witness ==
    /\ pc = "ranked"
    /\ Scores(players0) = <<0, 1, 2>>
    /\ Scores(sorted_players) = <<2, 1, 0>>

\* a step of submit_answer that reads the selection sel
SubmitWith(sel) == SubmitAnswer /\ option_vars = sel

\* the 1-based position k holds the correct answer of the current question
IsCorrectPosition(k) ==
    /\ k \in 1..Len(current_question.options)
    /\ current_question.options[k] = current_question.correct_answer

\* C6: submit_answer with nothing selected (0) changes no score, neither
\* the index nor the round, keeps the question and starts no request
C6_EmptySelectionNoOp ==
    [][SubmitWith(0) =>
          UNCHANGED <<players, round, round_player_index, current_question,
                      request, pc, nAdvance>>]_vars

\* the warning of an empty submission was shown in the second round, after
\* a point had been scored
C6_Witness ==
    /\ message = "select_option"
    /\ pc = "waiting"
    /\ option_vars = 0
    /\ round = 2
    /\ TotalScore(players) = 1

\* C7: submitting the position of the correct answer gives exactly one
\* point to the player who was current at the submission and to nobody
\* else, and the requests that follow (skips included) change no score
C7_CorrectAnswerScoresCurrent ==
    [][/\ (SubmitAnswer /\ IsCorrectPosition(option_vars))
            => players' = [players EXCEPT ![round_player_index + 1].score = @ + 1]
       /\ (pc = "fetching" => players' = players)]_vars

\* the first of three players scored, then the second was skipped
C7_Witness ==
    /\ Len(players) = 3
    /\ Scores(players) = <<1, 0, 0>>
    /\ nAdvance = 2
    /\ round_player_index = 2
    /\ message = "fetch_error"

IsRankingOf(lb, ps) ==
    /\ Len(lb) = Len(ps)
    /\ \A i \in 1..Len(ps) : Count(lb, <<ps[i].name, ps[i].score>>) = 1
    /\ \A i \in 1..(Len(lb) - 1) : lb[i][2] >= lb[i + 1][2]
    /\ \A i, j \in 1..Len(lb) :
          (i < j /\ lb[i][2] = lb[j][2]) => PosOf(ps, lb[i][1]) < PosOf(ps, lb[j][1])

\* C10: end_game ends the session: the list it shows is the ranking of the
\* whole registry with the scores of that moment, and no step follows it
C10_EndGameTerminates ==
    [][/\ (pc # "ended" /\ pc' = "ended") => IsRankingOf(final_leaderboard', players)
       /\ pc = "ended" => UNCHANGED vars]_vars

\* the game ended with the third player ranked first
C10_Witness ==
    /\ pc = "ended"
    /\ Len(final_leaderboard) = 3
    /\ final_leaderboard[1] = <<3, 1>>
    /\ final_leaderboard[2] = <<1, 0>>

Range(seq) == {seq[i] : i \in 1..Len(seq)}

\* C11: a Question built from a provider record has its correct answer
\* among the options and one option more than the record has incorrect
\* answers, whatever the shuffle; the options are the combined list
\* reordered and correct_answer is the record's answer string
C11_QuestionWellFormed ==
    (pc = "fetched" /\ returned # None) =>
        LET rec == response.results[1]
        IN /\ returned.correct_answer \in Range(returned.options)
           /\ Len(returned.options) = Len(rec.incorrect_answers) + 1
           /\ SameMultiset(returned.options,
                           rec.incorrect_answers \o <<rec.correct_answer>>)
           /\ returned.correct_answer = rec.correct_answer

\* the shuffle moved the correct answer from the end to the front
C11_Witness ==
    /\ pc = "fetched"
    /\ returned # None
    /\ Len(returned.options) = 3
    /\ returned.options[1] = returned.correct_answer
    /\ returned.options[3] # returned.correct_answer

\* score of the player named n in the list ps
ScoreOf(ps, n) == ps[PosOf(ps, n)].score

\* C12: every score starts at 0 and never goes down: each step leaves a
\* player's score as it is or raises it by 1, and raises at most one score
C12_ScoresMonotone ==
    /\ \A i \in 1..Len(players0) : players0[i].score = 0
    /\ [][/\ \A i \in 1..Len(players) :
               ScoreOf(players', players[i].name) - players[i].score \in {0, 1}
          /\ TotalScore(players') - TotalScore(players) \in {0, 1}]_vars

\* a player who scored twice went through end_game
C12_Witness ==
    /\ pc = "ended"
    /\ \E i \in 1..Len(players) : players[i].score = 2

Advanced ==
    /\ round_player_index' = (round_player_index + 1) % Len(players)
    /\ round' = IF round_player_index' = 0 THEN round + 1 ELSE round

\* C14: the round changes only in next_player, and a call of next_player
\* raises it by exactly 1 if the index becomes 0 and leaves it otherwise,
\* after a scored answer and after a skip alike
C14_RoundOnlyOnWrap ==
    [][/\ round' # round => nAdvance' = nAdvance + 1
       /\ nAdvance' = nAdvance + 1 =>
             round' = IF round_player_index' = 0 THEN round + 1 ELSE round]_vars

\* a single player reached round 3 by one scored answer and one skip
C14_Witness ==
    /\ Len(players) = 1
    /\ round = 3
    /\ nAdvance = 2
    /\ TotalScore(players) = 1
    /\ message = "fetch_error"

\* a step that completes a turn: an answer taken to the scoring branch, or
\* a fetch that failed
TurnCompleted ==
    \/ SubmitAnswer /\ option_vars \in 1..Len(current_question.options)
    \/ pc = "fetching" /\ pc' # "waiting"

C16_WrongAnswerAdvances ==
    [][/\ (/\ SubmitAnswer
           /\ option_vars \in 1..Len(current_question.options)
           /\ current_question.options[option_vars]
                  # current_question.correct_answer)
          => /\ players' = players
             /\ Advanced
             /\ pc' = "fetching"
             /\ request' = players[round_player_index' + 1].DEFAULT_DIFFICULTY
             /\ message' = "wrong"
       /\ SubmitAnswer =>
             \A i \in 1..Len(players) :
                 i # round_player_index + 1 => players'[i] = players[i]]_vars

\* the second of two players answered wrong and the round wrapped
C16_Witness ==
    /\ Len(players) = 2
    /\ message = "wrong"
    /\ pc = "fetching"
    /\ round = 2
    /\ round_player_index = 0
    /\ Scores(players) = <<1, 0>>

Names(ps) == [i \in 1..Len(ps) |-> ps[i].name]

\* C17: the order of the registry is the one fixed at setup: no operation
\* reorders it, adds to it or removes from it
C17_RegistryOrderFixed == Names(players) = Names(players0)

\* C18: the session is turn-sequential: a request is in flight exactly
\* while ask_question waits for it, no selection, submission or end_game is
\* processed meanwhile, and a new request goes out only as part of the
\* step in which the previous one came back failed
C18_TurnSequential ==
    /\ [](request # "none" <=> pc = "fetching")
    /\ [][request # "none" =>
             /\ ~(SubmitAnswer \/ EndGame \/ SelectOption)
             /\ \/ pc' = "waiting" /\ request' = "none"
                \/ message' = "fetch_error" /\ Advanced /\ players' = players]_vars

\* a request is in flight for the second player while the question of the
\* first is still stored
C18_Witness ==
    /\ pc = "fetching"
    /\ request # "none"
    /\ current_question # None
    /\ round_player_index = 1
    /\ message = "correct"

\* C19: the request in flight carries the difficulty of the player at the
\* current index; a player's difficulty is the one given at creation
\* (child: easy, adult: medium) and is never anything else
C19_FetchUsesCurrentTier ==
    /\ pc = "fetching" =>
          request = players[round_player_index + 1].DEFAULT_DIFFICULTY
    /\ \A i \in 1..Len(players) :
          /\ players[i].DEFAULT_DIFFICULTY
                = players0[PosOf(players0, players[i].name)].DEFAULT_DIFFICULTY
          /\ players[i].DEFAULT_DIFFICULTY \in {"easy", "medium"}
    /\ add_player(<<>>, 1, "child")[1].DEFAULT_DIFFICULTY = "easy"
    /\ add_player(<<>>, 1, "adult")[1].DEFAULT_DIFFICULTY = "medium"

\* after a child's turn the request for an adult is in flight
C19_Witness ==
    /\ pc = "fetching"
    /\ Len(players) = 2
    /\ players[1].DEFAULT_DIFFICULTY = "easy"
    /\ players[2].DEFAULT_DIFFICULTY = "medium"
    /\ round_player_index = 1
    /\ request = "medium"

\* C20: with every fetch failing the session only ever skips: no question
\* is presented, no score changes, and no error or terminal state is
\* reached
C20_SkipsForever ==
    /\ pc = "fetching"
    /\ current_question = None
    /\ TotalScore(players) = 0

\* C21: whenever the session waits for an answer a current question exists
\* and it is the one the latest request returned, a request made in this
\* turn for the player at round_player_index at that player's difficulty;
\* a question fetched for an earlier player is never left to be answered
\* for a later one
C21_WaitingQuestionIsCurrent ==
    pc = "waiting" =>
        /\ current_question # None
        /\ asked.at = nAdvance
        /\ asked.index = round_player_index
        /\ asked.difficulty
             = PyGet(players, round_player_index).DEFAULT_DIFFICULTY

\* C22: with a provider that does not fail forever, every turn that is
\* started comes to a state where a question is presented and the session
\* waits for an answer, and the player who gets it is the one at the index
\* when the first request succeeds
C22_QuestionEventuallyPresented ==
    /\ (pc = "fetching") ~> (pc = "waiting")
    /\ [][(pc = "fetching" /\ pc' = "waiting") =>
             /\ round_player_index' = round_player_index
             /\ asked'.index = round_player_index
             /\ asked'.at = nAdvance]_vars

====
